---- MODULE Spec2Model ----
(***************************************************************************)
(* Model of the chatbot proxy service: src/main.py (FastAPI application,   *)
(* slowapi rate limiter, Together AI client), src/database.py and          *)
(* src/models.py (schema that is declared but never wired in).             *)
(*                                                                         *)
(* Time is a discrete clock.  One tick is 60/WindowTicks seconds, so the   *)
(* "minute" of the "5/minute" limit lasts WindowTicks ticks.               *)
(***************************************************************************)
EXTENDS Integers, Sequences, FiniteSets

\* ------------------------------------------------------------------ bounds
WindowTicks == 2        \* clock ticks per minute (resolution of the clock)
MaxPosts == 7           \* valid POST /chat/ requests received in a run
MaxPostsOther == 1      \* valid requests of the second address
MaxPostsFlow == 2       \* the same, where every body and outcome is drawn
MaxInFlight == 2        \* requests that may await the upstream call at once

MaxTime == WindowTicks + 1

\* --------------------------------------------------------- program constants
Limit == 5              \* "5/minute"

Clients == {"10.0.0.1", "10.0.0.2"}
Slots == 1..MaxInFlight

NoKey == "unset"
Model == "meta-llama/Llama-2-7b-chat-hf"
Fallback == "No response received."
TooManyDetail == "Too many requests. Please try again later."
FailedDetail == "Failed to fetch response from Together AI."
RunningMessage == "Chatbot API is running!"
InternalServerError == "Internal Server Error"
FieldRequired == "user_input: field required"

\* src/models.py: the two tables of the declarative base
Tables == {"users", "conversations"}

VARIABLES
  phase,            \* "startup" | "serving" | "failed": where the process is
  TOGETHER_API_KEY, \* the credential read from the environment
  tables,           \* tables that exist in chatbot.db
  now,              \* the clock the limiter reads
  storage,          \* limiter: address -> hits counted in its current window
  expirations,      \* limiter: address -> time its window ends (0: no window)
  slots,            \* chat handlers suspended at "await client.post"
  reached,          \* address -> valid POST /chat/ requests received so far
  grants,           \* address -> the hits the limiter allowed, in order
  last              \* the exchange answered most recently

vars == <<phase, TOGETHER_API_KEY, tables, now, storage, expirations, slots,
          reached, grants, last>>

\* ------------------------------------------------------------- JSON values
EmptyDict == [k \in {} |-> ""]

\* dict.get(key, default)
get(d, key, default) == IF key \in DOMAIN d THEN d[key] ELSE default

\* Request bodies a client may post: a JSON object with or without user_input.
Prompts == {"hi", "yo"}
ValidBodies == {[has_user_input |-> TRUE, user_input |-> p] : p \in Prompts}
InvalidBodies == {[has_user_input |-> FALSE, user_input |-> ""]}

\* ChatRequest: pydantic requires the string field user_input
validation_skipped(body) == FALSE
validation_fails(body) == ~body.has_user_input

\* Bodies of upstream replies, named by shape.
JsonShapes == {"reply_hello", "reply_two", "no_choices", "empty_choices",
               "no_message", "no_content"}

JsonOf(shape) ==
  CASE shape = "reply_hello" ->
         [choices |-> << [message |-> [content |-> "Hello!"]] >>]
    [] shape = "reply_two" ->
         [choices |-> << [message |-> [content |-> "First"]],
                         [message |-> [content |-> "Second"]] >>]
    [] shape = "no_choices" -> [id |-> "cmpl-1"]
    [] shape = "empty_choices" -> [choices |-> << >>]
    [] shape = "no_message" -> [choices |-> << [index |-> "0"] >>]
    [] shape = "no_content" ->
         [choices |-> << [message |-> [role |-> "assistant"]] >>]
    [] OTHER -> EmptyDict

\* What "await client.post(...)" can produce: a transport failure
\* (httpx.RequestError) or a response with a status code and a body.
Outcomes ==
  {[transport |-> FALSE, status_code |-> 200, shape |-> s] : s \in JsonShapes}
  \cup {[transport |-> FALSE, status_code |-> c, shape |-> "error_page"] : c \in {404, 503}}
  \cup {[transport |-> TRUE, status_code |-> 0, shape |-> "none"]}

NoOutcome == [transport |-> FALSE, status_code |-> 0, shape |-> "none"]

\* ------------------------------------------------------------ rate limiter
\* limits' fixed-window test: the hit is allowed while the count is within
\* the limit's amount
within_limit_strict(count) == count < Limit
within_limit(count) == count <= Limit

\* MemoryStorage.incr: the stored count after the hit
incr_lost(count) == count
incr(count) == count + 1

\* key_func of the limiter: the client's address
shared_key(a) == "10.0.0.1"
get_remote_address(a) == a

\* Limiter.hit for a request of address a at time t: drop the key's expired
\* window, count the hit, open a window when it is the first hit, compare.
hit(a, t) ==
  LET k == get_remote_address(a)
      live == IF expirations[k] <= t THEN 0 ELSE storage[k]
      seen == live + 1
      exp == IF seen = 1 THEN t + WindowTicks ELSE expirations[k]
  IN  [storage |-> [storage EXCEPT ![k] = incr(live)],
       expirations |-> [expirations EXCEPT ![k] = exp],
       window |-> exp,
       seen |-> seen,
       allowed |-> within_limit(seen)]

\* -------------------------------------------------------- upstream client
\* data = {"model": ..., "messages": [{"role": "user", "content": prompt}]}
request_payload(prompt) ==
  [model |-> Model, messages |-> << [role |-> "user", content |-> prompt] >>]

NoPayload == [model |-> "", messages |-> << >>]

\* json_response.get("choices", [{}])[0].get("message", {}).get("content", ...)
extract_last(json) ==
  LET choices == get(json, "choices", << EmptyDict >>)
  IN  IF Len(choices) = 0
        THEN [exc |-> "IndexError", value |-> ""]
        ELSE [exc |-> "none",
              value |-> get(get(choices[Len(choices)], "message", EmptyDict),
                            "content", Fallback)]
extract_reply(json) ==
  LET choices == get(json, "choices", << EmptyDict >>)
  IN  IF Len(choices) = 0
        THEN [exc |-> "IndexError", value |-> ""]
        ELSE [exc |-> "none",
              value |-> get(get(choices[1], "message", EmptyDict),
                            "content", Fallback)]

\* query_together_ai after the await: the value returned or the exception
\* raised, and what the module's logger recorded.
query_together_ai(outcome) ==
  IF outcome.transport
    THEN \* except httpx.RequestError
         [exc |-> "HTTPException", status_code |-> 500, value |-> FailedDetail,
          logged |-> "error"]
  ELSE IF outcome.status_code >= 400
    THEN \* raise_for_status: httpx.HTTPStatusError is no RequestError
         [exc |-> "HTTPStatusError", status_code |-> 0, value |-> "",
          logged |-> "none"]
  ELSE LET r == extract_reply(JsonOf(outcome.shape))
       IN  IF r.exc = "none"
             THEN [exc |-> "none", status_code |-> 0, value |-> r.value,
                   logged |-> "info"]
             ELSE [exc |-> r.exc, status_code |-> 0, value |-> "",
                   logged |-> "none"]

\* ---------------------------------------------------------- HTTP responses
Response(status, key, value) == [status |-> status, key |-> key, value |-> value]

\* The framework's answer to what the endpoint returned or raised.
respond(r) ==
  IF r.exc = "none" THEN Response(200, "response", r.value)
  ELSE IF r.exc = "HTTPException" THEN Response(r.status_code, "detail", r.value)
  ELSE Response(500, "text", InternalServerError)

\* rate_limit_exceeded_handler returns (does not raise) an HTTPException
rate_limit_exceeded_handler ==
  [type |-> "HTTPException", status_code |-> 429, detail |-> TooManyDetail]

\* The framework sends what an exception handler returns by calling it as a
\* response; an object that is no response cannot be called.
send_handler_result(x) ==
  IF x.type = "Response"
    THEN Response(x.status_code, "detail", x.detail)
    ELSE Response(500, "text", InternalServerError)

Free == [busy |-> FALSE, addr |-> "", body |-> [has_user_input |-> FALSE, user_input |-> ""],
         sent |-> NoPayload, calls |-> 0]

Exchange(op, a, body, sent, calls, outcome, logged, resp) ==
  [op |-> op, addr |-> a, body |-> body, sent |-> sent, calls |-> calls,
   outcome |-> outcome, logged |-> logged, limited |-> FALSE, resp |-> resp]

NoExchange ==
  Exchange("none", "", [has_user_input |-> FALSE, user_input |-> ""], NoPayload, 0,
           NoOutcome, "none", Response(0, "", ""))

\* ------------------------------------------------------------------- state
Init ==
  /\ phase = "startup"
  /\ TOGETHER_API_KEY \in {NoKey, "secret"}
  /\ tables = {}
  /\ now = 0
  /\ storage = [a \in Clients |-> 0]
  /\ expirations = [a \in Clients |-> 0]
  /\ slots = [s \in Slots |-> Free]
  /\ reached = [a \in Clients |-> 0]
  /\ grants = [a \in Clients |-> << >>]
  /\ last = NoExchange

\* src/database.py: Base.metadata.create_all
init_db(existing) == existing \cup Tables

\* Import of src/main.py: the credential is read and checked, the app, the
\* CORS middleware and the limiter are built.  Nothing imports database.
Startup ==
  /\ phase = "startup"
  /\ phase' = IF TOGETHER_API_KEY = NoKey THEN "failed" ELSE "serving"
  /\ UNCHANGED <<TOGETHER_API_KEY, tables, now, storage, expirations, slots,
                 reached, grants, last>>

Tick ==
  /\ phase = "serving"
  /\ now < MaxTime
  /\ now' = now + 1
  /\ UNCHANGED <<phase, TOGETHER_API_KEY, tables, storage, expirations, slots,
                 reached, grants, last>>

\* GET /
home_limited(a) ==
  /\ phase = "serving"
  /\ storage' = hit(a, now).storage
  /\ expirations' = hit(a, now).expirations
  /\ last' = [Exchange("GET /", a, NoExchange.body, NoPayload, 0, NoOutcome, "none",
                       IF hit(a, now).allowed
                         THEN Response(200, "message", RunningMessage)
                         ELSE send_handler_result(rate_limit_exceeded_handler))
                EXCEPT !.limited = ~hit(a, now).allowed]
  /\ UNCHANGED <<phase, TOGETHER_API_KEY, tables, now, slots, reached, grants>>
home(a) ==
  /\ phase = "serving"
  /\ last' = Exchange("GET /", a, NoExchange.body, NoPayload, 0, NoOutcome, "none",
                      Response(200, "message", RunningMessage))
  /\ UNCHANGED <<phase, TOGETHER_API_KEY, tables, now, storage, expirations,
                 slots, reached, grants>>

FreeSlots == {s \in Slots : ~slots[s].busy}
LowestFree == CHOOSE s \in FreeSlots : \A u \in FreeSlots : s <= u

\* POST /chat/ from its arrival to its first suspension: the body is
\* validated, the limiter decorator counts the hit, and either the
\* RateLimitExceeded handler answers or query_together_ai posts upstream and
\* awaits.
chat(a, body) ==
  /\ phase = "serving"
  /\ IF validation_fails(body)
       THEN /\ last' = Exchange("POST /chat/", a, body, NoPayload, 0, NoOutcome, "none",
                                Response(422, "detail", FieldRequired))
            /\ UNCHANGED <<storage, expirations, slots, reached, grants>>
       ELSE LET h == hit(a, now) IN
            /\ h.allowed => FreeSlots # {}
            /\ storage' = h.storage
            /\ expirations' = h.expirations
            /\ reached' = [reached EXCEPT ![a] = @ + 1]
            /\ IF h.allowed
                 THEN /\ slots' = [slots EXCEPT ![LowestFree] =
                             [busy |-> TRUE, addr |-> a, body |-> body,
                              sent |-> request_payload(body.user_input),
                              calls |-> 1]]
                      /\ grants' = [grants EXCEPT ![a] = Append(@,
                             [at |-> now, window |-> h.window,
                              seen |-> h.seen])]
                      /\ last' = last
                 ELSE /\ last' = [Exchange("POST /chat/", a, body, NoPayload, 0,
                                     NoOutcome, "none",
                                     send_handler_result(rate_limit_exceeded_handler))
                                   EXCEPT !.limited = TRUE]
                      /\ UNCHANGED <<slots, grants>>
  /\ UNCHANGED <<phase, TOGETHER_API_KEY, tables, now>>

\* The upstream call of the handler in slot s completes and the handler runs
\* to its end: query_together_ai returns or raises, chat wraps the reply.
UpstreamReply(s, outcome) ==
  /\ phase = "serving"
  /\ slots[s].busy
  /\ LET r == query_together_ai(outcome) IN
     last' = Exchange("POST /chat/", slots[s].addr, slots[s].body, slots[s].sent,
                      slots[s].calls, outcome, r.logged, respond(r))
  /\ slots' = [slots EXCEPT ![s] = Free]
  /\ UNCHANGED <<phase, TOGETHER_API_KEY, tables, now, storage, expirations,
                 reached, grants>>

OkOutcome == [transport |-> FALSE, status_code |-> 200, shape |-> "reply_hello"]
HiBody == [has_user_input |-> TRUE, user_input |-> "hi"]

\* One client, every request body and every upstream outcome.
Next ==
  \/ Startup
  \/ Tick
  \/ home("10.0.0.1")
  \/ \E body \in ValidBodies \cup InvalidBodies :
        reached["10.0.0.1"] < MaxPostsFlow /\ chat("10.0.0.1", body)
  \/ \E s \in Slots, o \in Outcomes : UpstreamReply(s, o)

Spec == Init /\ [][Next]_vars

\* One client, one valid body and the missing-field body, a well-formed
\* upstream reply: enough requests to fill a window and pass its end.
NextLimiter ==
  \/ Startup
  \/ Tick
  \/ home("10.0.0.1")
  \/ \E body \in {HiBody} \cup InvalidBodies :
        reached["10.0.0.1"] < MaxPosts /\ chat("10.0.0.1", body)
  \/ \E s \in Slots : UpstreamReply(s, OkOutcome)

SpecLimiter == Init /\ [][NextLimiter]_vars

\* Both clients post valid bodies.
NextClients ==
  \/ Startup
  \/ Tick
  \/ reached["10.0.0.1"] < MaxPosts /\ chat("10.0.0.1", HiBody)
  \/ reached["10.0.0.2"] < MaxPostsOther /\ chat("10.0.0.2", HiBody)
  \/ \E s \in Slots : UpstreamReply(s, OkOutcome)

SpecClients == Init /\ [][NextClients]_vars

\* ------------------------------------------------------------- properties
Min(x, y) == IF x <= y THEN x ELSE y

\* The allowed hits of address a counted in the window that ends at w
GrantsIn(a, w) == {i \in 1..Len(grants[a]) : grants[a][i].window = w}

\* The allowed hits of address a at the ticks lo..hi
GrantsBetween(a, lo, hi) ==
  {i \in 1..Len(grants[a]) : lo <= grants[a][i].at /\ grants[a][i].at <= hi}

LastIsChat == last.op = "POST /chat/"

\* C1: from an empty limiter, while all the valid requests of an address so
\* far came within a minute of its first, the upstream calls started for it
\* number min(requests, 5): each of the first five requests starts one, the
\* sixth is rejected by the limiter and starts none.
C1_FirstFiveReachUpstream ==
  /\ \A a \in Clients :
       reached[a] > 0 =>
         /\ Len(grants[a]) > 0
         /\ now < grants[a][1].at + WindowTicks =>
              Len(grants[a]) = Min(reached[a], Limit)
  /\ last.limited => (last.calls = 0 /\ last.sent = NoPayload)

C1_Witness ==
  /\ reached["10.0.0.1"] = Limit + 1
  /\ now < grants["10.0.0.1"][1].at + WindowTicks
  /\ Len(grants["10.0.0.1"]) = Limit
  /\ last.limited

\* C2 as stated: in every interval of one minute, wherever it starts, at
\* most 5 requests of an address are accepted.
C2_RollingWindow ==
  \A a \in Clients : \A s \in 0..MaxTime :
    Cardinality(GrantsBetween(a, s, s + WindowTicks - 1)) <= Limit

\* C2 as amended: in every window of an address (the minute that opens with
\* its first request after its previous window ended) at most 5 of its
\* requests are accepted: the k-th accepted request of the window is the
\* k-th hit counted on the address's own key, k <= 5, whatever the other
\* addresses do.
C2_FixedWindow ==
  \A a \in Clients : \A i \in 1..Len(grants[a]) :
    LET g == grants[a][i] IN
    /\ g.window - WindowTicks <= g.at /\ g.at < g.window
    /\ g.seen = Cardinality({j \in GrantsIn(a, g.window) : j <= i})
    /\ g.seen <= Limit
    /\ Cardinality(GrantsIn(a, g.window)) <= Limit

C2_Witness ==
  LET a1 == "10.0.0.1"
      a2 == "10.0.0.2"
  IN  /\ Len(grants[a1]) = Limit + 1
      /\ grants[a1][Limit].window = grants[a1][1].window
      /\ grants[a1][Limit + 1].window > grants[a1][1].window
      /\ Len(grants[a2]) > 0
      /\ grants[a2][1].at >= grants[a1][Limit].at
      /\ grants[a2][1].at < grants[a1][1].window

\* C3: a request the limiter rejects is answered 429 with the message
\* "Too many requests. Please try again later.".
C3_Rejected429 ==
  last.limited => last.resp = Response(429, "detail", TooManyDetail)

\* C4: an upstream reply with an HTTP error status is answered 500 with the
\* fixed detail and logged at error level, as a transport failure is.
C4_HttpErrorMapped ==
  (LastIsChat /\ last.calls > 0 /\ ~last.outcome.transport
     /\ last.outcome.status_code >= 400)
  => (last.resp = Response(500, "detail", FailedDetail) /\ last.logged = "error")

\* A field is absent on the path choices -> first element -> message -> content
FieldAbsent(json) ==
  \/ "choices" \notin DOMAIN json
  \/ Len(json.choices) = 0
  \/ "message" \notin DOMAIN json.choices[1]
  \/ "content" \notin DOMAIN json.choices[1].message

LastSucceededUpstream ==
  LastIsChat /\ last.calls > 0 /\ ~last.outcome.transport
    /\ last.outcome.status_code < 400

\* C5: a successful upstream reply in which a field of the path is absent
\* is answered 200 with {"response": "No response received."}.
C5_FallbackOnAbsentField ==
  (LastSucceededUpstream /\ FieldAbsent(JsonOf(last.outcome.shape)))
  => last.resp = Response(200, "response", Fallback)

\* C6: a request without user_input is answered 4xx before the limiter and
\* the upstream client: it never awaits an upstream call, and the step that
\* answers it leaves the limiter's counts, the windows and the upstream
\* calls as they were.
C6_InvalidBodyFrame ==
  [][ /\ \A s \in Slots : slots'[s].busy => slots'[s].body.has_user_input
      /\ (last' # last /\ last'.op = "POST /chat/" /\ ~last'.body.has_user_input)
           => /\ last'.resp.status \in 400..499
              /\ last'.calls = 0
              /\ ~last'.limited
              /\ UNCHANGED <<storage, expirations, slots, grants, reached>> ]_vars

C6_Witness ==
  /\ LastIsChat /\ ~last.body.has_user_input /\ last.resp.status = 422
  /\ storage["10.0.0.1"] = Limit - 1
  /\ expirations["10.0.0.1"] > now
  /\ Len(grants["10.0.0.1"]) = Limit - 1

\* C7: GET / is answered 200 with {"message": "Chatbot API is running!"} in
\* every state, is never rate-limited, starts no upstream call and leaves
\* every address's count unchanged.
C7_HomeAlwaysRuns ==
  [][ (last' # last /\ last'.op = "GET /")
        => /\ last'.resp = Response(200, "message", RunningMessage)
           /\ ~last'.limited
           /\ last'.calls = 0
           /\ UNCHANGED <<storage, expirations, slots, grants, reached>> ]_vars

C7_Witness ==
  /\ last.op = "GET /"
  /\ last.resp.status = 200
  /\ storage[last.addr] > Limit
  /\ expirations[last.addr] > now

\* C8: an accepted request whose upstream reply is successful and carries a
\* first choice with message content R made exactly one upstream call, with
\* its user_input as the single user-role message, and is answered 200 with
\* {"response": R}.
C8_ReplyRelayed ==
  (LastSucceededUpstream /\ ~FieldAbsent(JsonOf(last.outcome.shape)))
  => /\ last.calls = 1
     /\ last.sent.messages = << [role |-> "user", content |-> last.body.user_input] >>
     /\ last.resp = Response(200, "response",
                             JsonOf(last.outcome.shape).choices[1].message.content)

C8_Witness ==
  /\ LastSucceededUpstream
  /\ last.outcome.shape = "reply_two"
  /\ last.body.user_input = "yo"
  /\ last.resp = Response(200, "response", "First")

\* C9: once the service accepts requests, the users and conversations
\* tables exist (init_db has run).
C9_SchemaCreated ==
  phase = "serving" => tables = init_db({})

\* C10: the limiter's check and increment are one step: whatever requests
\* of an address are in flight, the hits allowed in one window observed
\* pairwise different counts, every one of them is counted in the stored
\* count, and no more than 5 upstream calls were started in the window.
C10_AtomicHit ==
  \A a \in Clients :
    /\ \A i, j \in 1..Len(grants[a]) :
         (i # j /\ grants[a][i].window = grants[a][j].window)
           => grants[a][i].seen # grants[a][j].seen
    /\ \A i \in 1..Len(grants[a]) :
         Cardinality(GrantsIn(a, grants[a][i].window)) <= Limit
    /\ expirations[a] > now =>
         Cardinality(GrantsIn(a, expirations[a])) = Min(storage[a], Limit)

C10_Witness ==
  /\ \A s \in Slots : slots[s].busy /\ slots[s].addr = "10.0.0.1"
  /\ expirations["10.0.0.1"] > now
  /\ Cardinality(GrantsIn("10.0.0.1", expirations["10.0.0.1"])) = Limit
  /\ storage["10.0.0.1"] > Limit
  /\ last.limited

====
